---- MODULE Spec2Model ----
(***************************************************************************)
(* CameraParams (src/src/CameraParams.cpp): parseYAML, parseKITTICalib and *)
(* equals, as a state machine over two CameraParams objects.               *)
(*                                                                         *)
(* Doubles are modelled by integers, except frame_rate_, which is the      *)
(* exact fraction num/den (den = 0 is the IEEE infinity of 1 / 0.0).       *)
(* A read past the end of a std::vector, or of a variable that was never   *)
(* written, yields either a fatal trap or any value of Garbage.            *)
(***************************************************************************)
EXTENDS Integers, Sequences, FiniteSets, TLC

VARIABLES m, ret, last, pc, frame, eqres, calls

vars == <<m, ret, last, pc, frame, eqres, calls>>

\* ------------------------------------------------------------------ bounds
\* Longest legacy (KITTI) calibration file, in lines.
MaxLines == 3
\* Most parse calls in one run on one object.
MaxCalls == 2
\* Most parse calls in one run on two objects side by side.
PairMaxCalls == 3

\* ------------------------------------------------------- program constants
\* cv::Mat::zeros(1, 5, CV_64F): slots of distortion_coeff_.
DistSlots == 5
\* frame_rate_ = 1 / 10.0 in parseKITTICalib.
KittiRateHz == 10

\* ------------------------------------------------------------ input domains
Objs == {"a", "b"}
\* What an out-of-bounds or uninitialized read may deliver.
Garbage == {7}
Tols == {0, 1}
CamIds == {"0"}

\* ----------------------------------------------------------------- helpers
Abs(x) == IF x < 0 THEN -x ELSE x

Zero3 == <<<<0, 0, 0>>, <<0, 0, 0>>, <<0, 0, 0>>>>
Eye3 == <<<<1, 0, 0>>, <<0, 1, 0>>, <<0, 0, 1>>>>
ZeroT == <<0, 0, 0>>
RotZ == <<<<0, -1, 0>>, <<1, 0, 0>>, <<0, 0, 1>>>>
RotX == <<<<1, 0, 0>>, <<0, 0, -1>>, <<0, 1, 0>>>>

\* cv::Mat operator* on 3x3 matrices.
MatMul(A, B) ==
  [i \in 1..3 |-> [j \in 1..3 |->
     A[i][1] * B[1][j] + A[i][2] * B[2][j] + A[i][3] * B[3][j]]]

\* cv::Mat operator+ on 3x1 matrices.
VecAdd(u, v) == [i \in 1..3 |-> u[i] + v[i]]

\* std::vector::operator[] with a 0-based index k; g is what an
\* out-of-bounds read delivers.
At(vec, k, g) == IF k + 1 <= Len(vec) THEN vec[k + 1] ELSE g

\* 1 / double(rate): an exact fraction; den = 0 stands for infinity.
Recip(rate) == [num |-> 1, den |-> rate]

\* cv::Mat::eye(3, 3) with fx, fy on the diagonal and cx, cy in column 2.
CameraMatrix(fx, fy, cx, cy) ==
  <<<<fx, 0, cx>>, <<0, fy, cy>>, <<0, 0, 1>>>>

\* gtsam::Cal3DS2(fx, fy, s, u0, v0, k1, k2, p1, p2).
Cal3DS2(fx, fy, s, u0, v0, k1, k2, p1, p2) ==
  [fx |-> fx, fy |-> fy, s |-> s, u0 |-> u0, v0 |-> v0,
   k1 |-> k1, k2 |-> k2, p1 |-> p1, p2 |-> p2]

\* UtilsOpenCV::Cvmats2pose: a pose from a 3x3 rotation and a 3x1 translation.
Cvmats2pose(R, T) == [R |-> R, T |-> T]

\* UtilsOpenCV::Vec2pose: the row-major data reshaped into rotation and
\* translation.
Vec2pose(vec, n_rows, n_cols) ==
  [R |-> [i \in 1..3 |-> [j \in 1..3 |-> vec[(i - 1) * n_cols + j]]],
   T |-> [i \in 1..3 |-> vec[(i - 1) * n_cols + n_cols]]]

\* A default-constructed CameraParams.
Fresh ==
  [intrinsics_ |-> <<>>,
   distortion_coeff_ |-> <<>>,
   camera_matrix_ |-> <<>>,
   image_size_ |-> [width |-> 0, height |-> 0],
   frame_rate_ |-> [num |-> 0, den |-> 1],
   body_Pose_cam_ |-> [R |-> Eye3, T |-> ZeroT],
   calibration_ |-> Cal3DS2(1, 1, 0, 0, 0, 0, 0, 0, 0),
   undistRect_map_x_ |-> <<>>,
   undistRect_map_y_ |-> <<>>,
   R_rectify_ |-> <<>>,
   P_ |-> <<>>]

NoLine == [empty |-> TRUE, label |-> "", vals |-> <<>>]

\* The locals of parseKITTICalib: the object parsed, the lines read so far,
\* the line just read, cvR, cvT and distortion_coeff5_.
NoFrame ==
  [cur |-> "a", nread |-> 0, line |-> NoLine, cvR |-> Zero3, cvT |-> ZeroT,
   distortion_coeff5_ |-> <<>>]

NoCall == [kind |-> "none"]

Init ==
  /\ m = [o \in Objs |-> Fresh]
  /\ ret = [o \in Objs |-> "fresh"]
  /\ last = [o \in Objs |-> NoCall]
  /\ pc = "idle"
  /\ frame = NoFrame
  /\ eqres = [kind |-> "none"]
  /\ calls = 0

\* A fatal condition (failed CHECK, trapped out-of-bounds read): the process
\* is gone.
Abort(o) ==
  /\ pc' = "aborted"
  /\ ret' = [ret EXCEPT ![o] = "aborted"]
  /\ eqres' = [kind |-> "none"]
  /\ UNCHANGED calls

\* --------------------------------------------------------------- parseYAML
\* The structured files offered to parseYAML: a well-formed one and its
\* one-field departures.
YamlBase ==
  [opens |-> TRUE,
   intrinsics |-> <<11, 12, 13, 14>>,
   distortion_coefficients |-> <<1, 2, 3, 4>>,
   resolution |-> <<752, 480>>,
   rate_hz |-> 20,
   T_BS |-> [rows |-> 4, cols |-> 4,
             data |-> <<0, -1, 0, 1, 1, 0, 0, 2, 0, 0, 1, 3, 0, 0, 0, 1>>]]

YamlFiles ==
  {YamlBase,
   [YamlBase EXCEPT !.opens = FALSE],
   [YamlBase EXCEPT !.intrinsics = <<11, 12, 13, 14, 15>>],
   [YamlBase EXCEPT !.intrinsics = <<11, 12, 13>>],
   [YamlBase EXCEPT !.distortion_coefficients = <<1, 2, 3>>],
   [YamlBase EXCEPT !.resolution = <<0, 0>>],
   [YamlBase EXCEPT !.rate_hz = 0]}
PairYamlFiles == {YamlBase}

\* UtilsOpenCV::safeOpenCVFileStorage: the file opens as the expected dialect.
safeOpenCVFileStorage(f) == f.opens

\* Whether parseYAML reads a vector of f past its end.
YamlReadsPastEnd(f) ==
  \/ Len(f.distortion_coefficients) < 4
  \/ Len(f.resolution) < 2
  \/ Len(f.intrinsics) < 4

\* The values the out-of-bounds reads of one call may deliver.
GarbageIf(needed) == IF needed THEN Garbage ELSE {0}

\* distortion_coeff_ = zeros(1, 5), then slots 0..3 from distortion_coeff4_;
\* what distortion_coeff_ held before is dropped.
PadDistortionStale(distortion_coeff_, distortion_coeff4_, g) ==
  [k \in 1..DistSlots |->
     IF k <= 4 THEN At(distortion_coeff4_, k - 1, g)
     ELSE IF distortion_coeff_ = <<>> THEN 0 ELSE distortion_coeff_[k]]
PadDistortion(distortion_coeff_, distortion_coeff4_, g) ==
  [k \in 1..DistSlots |->
     IF k <= 4 THEN At(distortion_coeff4_, k - 1, g) ELSE 0]

\* The fields parseYAML leaves in object old for file f; gi, gd and gr are
\* what reads past the end of intrinsics_, distortion_coeff4_ and resolution
\* deliver.
YamlFields(old, f, gi, gd, gr) ==
  LET intr == f.intrinsics
      d4 == f.distortion_coefficients
      res == f.resolution
  IN [old EXCEPT
        !.intrinsics_ = intr,
        !.distortion_coeff_ = PadDistortion(old.distortion_coeff_, d4, gd),
        !.image_size_ = [width |-> At(res, 0, gr), height |-> At(res, 1, gr)],
        !.frame_rate_ = Recip(f.rate_hz),
        !.body_Pose_cam_ = Vec2pose(f.T_BS.data, f.T_BS.rows, f.T_BS.cols),
        !.camera_matrix_ =
           CameraMatrix(At(intr, 0, gi), At(intr, 1, gi),
                        At(intr, 2, gi), At(intr, 3, gi)),
        !.calibration_ =
           Cal3DS2(At(intr, 0, gi), At(intr, 1, gi), 0,
                   At(intr, 2, gi), At(intr, 3, gi),
                   At(d4, 0, gd), At(d4, 1, gd), At(d4, 2, gd), At(d4, 3, gd))]

ParseYAML(o, f, budget) ==
  /\ pc = "idle"
  /\ calls < budget
  /\ \/ /\ ~safeOpenCVFileStorage(f) \/ YamlReadsPastEnd(f)
        /\ Abort(o)
        /\ UNCHANGED <<m, last, frame>>
     \/ /\ safeOpenCVFileStorage(f)
        /\ \E gi \in GarbageIf(Len(f.intrinsics) < 4),
              gd \in GarbageIf(Len(f.distortion_coefficients) < 4),
              gr \in GarbageIf(Len(f.resolution) < 2) :
             m' = [m EXCEPT ![o] = YamlFields(m[o], f, gi, gd, gr)]
        /\ ret' = [ret EXCEPT ![o] = "ok"]
        /\ last' = [last EXCEPT ![o] = [kind |-> "yaml", file |-> f]]
        /\ eqres' = [kind |-> "none"]
        /\ calls' = calls + 1
        /\ UNCHANGED <<pc, frame>>

\* --------------------------------------------------------- parseKITTICalib
\* A line of the legacy file: its first token and the numeric tokens after it.
Line(label, vals) == [empty |-> FALSE, label |-> label, vals |-> vals]
BlankLine == [empty |-> TRUE, label |-> "", vals |-> <<>>]

\* The lines legacy files are made of.
KittiLines ==
  {Line("S_0:", <<1242, 375>>),
   Line("K_0:", <<21, 0, 23, 0, 22, 24, 0, 0, 1>>),
   Line("D_0:", <<31, 32, 33, 34, 35>>),
   Line("D_0:", <<41, 42, 43, 44, 45>>),
   Line("R_0:", <<0, -1, 0, 1, 0, 0, 0, 0, 1>>),
   Line("T_0:", <<5, 6, 7>>),
   Line("S_1:", <<9, 9>>),
   BlankLine}
PairLines ==
  {Line("K_0:", <<21, 0, 23, 0, 22, 24, 0, 0, 1>>),
   Line("K_0:", <<25, 0, 26>>),
   Line("D_0:", <<31, 32, 33, 34, 35>>),
   Line("D_0:", <<36, 37>>)}

\* The camera-to-reference rotation and translation the caller passes.
CallerPoses ==
  {[R |-> Eye3, T |-> ZeroT], [R |-> RotX, T |-> <<1, 0, 2>>]}
PairPoses == {[R |-> Eye3, T |-> ZeroT]}

\* "S_" + cam_id + ":" and its siblings.
LabelAnyCamera(prefix, cam_id) == prefix \o "_1:"
Label(prefix, cam_id) == prefix \o "_" \o cam_id \o ":"

\* Which branch of the scan loop a line takes.
Branch(line, cam_id) ==
  IF line.empty THEN "skip"
  ELSE IF line.label = Label("S", cam_id) THEN "S"
  ELSE IF line.label = Label("K", cam_id) THEN "K"
  ELSE IF line.label = Label("D", cam_id) THEN "D"
  ELSE IF line.label = Label("R", cam_id) THEN "R"
  ELSE IF line.label = Label("T", cam_id) THEN "T"
  ELSE "skip"

\* for (i < n) { ss >> value; cell[i] = value; }: once the tokens run out
\* the extraction fails and value keeps what it held, the last token read,
\* or g when it was never written.
ReadLoop(vals, n, g) ==
  [i \in 1..n |->
     IF i <= Len(vals) THEN vals[i]
     ELSE IF Len(vals) = 0 THEN g ELSE vals[Len(vals)]]

\* The row-major 3x3 cv::Mat filled by the R branch.
RowMajor3(v) == [i \in 1..3 |-> [j \in 1..3 |-> v[(i - 1) * 3 + j]]]

\* cvR = R_cam_to_imu * cvR and cvT = T_cam_to_imu + cvT.
ComposeRSwapped(R_cam_to_imu, cvR) == MatMul(cvR, R_cam_to_imu)
ComposeR(R_cam_to_imu, cvR) == MatMul(R_cam_to_imu, cvR)
ComposeT(T_cam_to_imu, cvT) == VecAdd(T_cam_to_imu, cvT)

\* Entry of parseKITTICalib up to the read loop. last[o] keeps the call's
\* arguments; its lines are those the call has read, where they are recorded.
KittiBegin(o, opens, pose, cam_id, budget) ==
  /\ pc = "idle"
  /\ calls < budget
  /\ calls' = calls + 1
  /\ m' = [m EXCEPT ![o].frame_rate_ = Recip(KittiRateHz)]
  /\ \/ /\ ~opens
        /\ pc' = "aborted"
        /\ ret' = [ret EXCEPT ![o] = "aborted"]
        /\ UNCHANGED <<last, frame>>
     \/ /\ opens
        /\ frame' = [cur |-> o, nread |-> 0, line |-> NoLine, cvR |-> Zero3,
                     cvT |-> ZeroT, distortion_coeff5_ |-> <<>>]
        /\ last' = [last EXCEPT ![o] =
                      [kind |-> "kitti", R |-> pose.R, T |-> pose.T,
                       cam_id |-> cam_id, lines |-> <<>>]]
        /\ ret' = [ret EXCEPT ![o] = "running"]
        /\ pc' = "scan"
  /\ eqres' = [kind |-> "none"]

\* The S branch: image_size_ from two extracted doubles.
LineS(old, vals, g, h) ==
  [old EXCEPT !.image_size_ =
     [width |-> IF Len(vals) >= 1 THEN vals[1] ELSE g,
      height |-> IF Len(vals) >= 2 THEN vals[2] ELSE h]]

\* The K branch: intrinsics_ from K_vector[0], [4], [2], [5], and
\* camera_matrix_ rebuilt from them.
LineK(old, K_vector, g) ==
  LET intr == <<At(K_vector, 0, g), At(K_vector, 4, g),
                At(K_vector, 2, g), At(K_vector, 5, g)>>
  IN [old EXCEPT
        !.intrinsics_ = intr,
        !.camera_matrix_ = CameraMatrix(intr[1], intr[2], intr[3], intr[4])]

\* The D branch: the line's values are pushed onto distortion_coeff5_ ...
PushD(distortion_coeff5_, vals) == distortion_coeff5_ \o vals

\* ... and distortion_coeff_ is filled from its first five entries.
LineD(old, distortion_coeff5_, g) ==
  [old EXCEPT !.distortion_coeff_ =
     [k \in 1..DistSlots |-> At(distortion_coeff5_, k - 1, g)]]

\* The object and the locals after the loop body has run on line.
AfterLine(old, fr, line, cam_id, g, h) ==
  LET b == Branch(line, cam_id)
      next == [fr EXCEPT !.nread = fr.nread + 1, !.line = line]
      d5 == PushD(fr.distortion_coeff5_, line.vals)
  IN CASE b = "S" -> [obj |-> LineS(old, line.vals, g, h), fr |-> next]
       [] b = "K" -> [obj |-> LineK(old, line.vals, g), fr |-> next]
       [] b = "D" -> [obj |-> LineD(old, d5, g),
                      fr |-> [next EXCEPT !.distortion_coeff5_ = d5]]
       [] b = "R" -> [obj |-> old,
                      fr |-> [next EXCEPT
                                !.cvR = RowMajor3(ReadLoop(line.vals, 9, g))]]
       [] b = "T" -> [obj |-> old,
                      fr |-> [next EXCEPT !.cvT = ReadLoop(line.vals, 3, g)]]
       [] OTHER -> [obj |-> old, fr |-> next]

\* Whether the loop body reads a vector past its end on line.
LineReadsPastEnd(fr, line, cam_id) ==
  \/ Branch(line, cam_id) = "K" /\ Len(line.vals) < 6
  \/ /\ Branch(line, cam_id) = "D"
     /\ Len(PushD(fr.distortion_coeff5_, line.vals)) < DistSlots

\* One pass of the read loop: getline delivers line, the body runs on it.
KittiLine(line, record) ==
  /\ pc = "scan"
  /\ frame.nread < MaxLines
  /\ LET o == frame.cur
         id == last[o].cam_id
         past == LineReadsPastEnd(frame, line, id)
         b == Branch(line, id)
     IN \/ /\ past
           /\ Abort(o)
           /\ UNCHANGED <<m, last, frame>>
        \/ /\ \E g \in GarbageIf(past \/ (b \in {"S", "R", "T"}
                                            /\ line.vals = <<>>)),
                 h \in GarbageIf(b = "S" /\ Len(line.vals) < 2) :
                LET after == AfterLine(m[o], frame, line, id, g, h)
                IN /\ m' = [m EXCEPT ![o] = after.obj]
                   /\ frame' = after.fr
           /\ last' = IF record
                      THEN [last EXCEPT ![o].lines = Append(@, line)]
                      ELSE last
           /\ UNCHANGED <<ret, pc, eqres, calls>>

\* After the loop: the pose is composed, the calibration built, true returned.
KittiEnd ==
  /\ pc = "scan"
  /\ LET o == frame.cur
         call == last[o]
         intr == m[o].intrinsics_
         d5 == frame.distortion_coeff5_
         cvR == ComposeR(call.R, frame.cvR)
         cvT == ComposeT(call.T, frame.cvT)
         past == Len(intr) < 4 \/ Len(d5) < 4
     IN \/ /\ past
           /\ Abort(o)
           /\ m' = [m EXCEPT ![o].body_Pose_cam_ = Cvmats2pose(cvR, cvT)]
           /\ UNCHANGED <<last, frame>>
        \/ /\ \E gi \in GarbageIf(Len(intr) < 4),
                 gd \in GarbageIf(Len(d5) < 4) :
                m' = [m EXCEPT ![o] =
                  [@ EXCEPT
                     !.body_Pose_cam_ = Cvmats2pose(cvR, cvT),
                     !.calibration_ =
                        Cal3DS2(At(intr, 0, gi), At(intr, 1, gi), 0,
                                At(intr, 2, gi), At(intr, 3, gi),
                                At(d5, 0, gd), At(d5, 1, gd),
                                At(d5, 2, gd), At(d5, 3, gd))]]
           /\ ret' = [ret EXCEPT ![o] = "ok"]
           /\ frame' = NoFrame
           /\ pc' = "idle"
           /\ eqres' = [kind |-> "none"]
           /\ UNCHANGED <<last, calls>>

\* ------------------------------------------------------------------ equals
\* The exact difference test fabs(a - b) < tol on frame rates; a difference
\* with an infinite operand is infinite or NaN and never below tol.
FrameRateClose(a, b, tol) ==
  /\ a.den # 0
  /\ b.den # 0
  /\ Abs(a.num * b.den - b.num * a.den) < tol * Abs(a.den * b.den)

\* gtsam::Pose3::equals: rotation and translation within tol, elementwise.
PoseEquals(p, q, tol) ==
  /\ \A i \in 1..3 : \A j \in 1..3 : Abs(p.R[i][j] - q.R[i][j]) <= tol
  /\ \A i \in 1..3 : Abs(p.T[i] - q.T[i]) <= tol

\* gtsam::Cal3DS2::equals: every parameter within tol.
CalEquals(c, d, tol) ==
  /\ Abs(c.fx - d.fx) <= tol /\ Abs(c.fy - d.fy) <= tol
  /\ Abs(c.s - d.s) <= tol
  /\ Abs(c.u0 - d.u0) <= tol /\ Abs(c.v0 - d.v0) <= tol
  /\ Abs(c.k1 - d.k1) <= tol /\ Abs(c.k2 - d.k2) <= tol
  /\ Abs(c.p1 - d.p1) <= tol /\ Abs(c.p2 - d.p2) <= tol

\* UtilsOpenCV::CvMatCmp: the matrices match elementwise.
CvMatCmp(A, B) == A = B

\* The loop over intrinsics_: camPar.intrinsics_[i] is read for every i below
\* this->intrinsics_.size(); g is what a read past its end delivers.
AreIntrinsicEqual(x, y, tol, g) ==
  \A i \in 1..Len(x.intrinsics_) :
    Abs(x.intrinsics_[i] - At(y.intrinsics_, i - 1, g)) <= tol

\* CameraParams::equals(camPar, tol) on this = x, camPar = y.
EqualsResult(x, y, tol, g) ==
  /\ AreIntrinsicEqual(x, y, tol, g)
  /\ PoseEquals(x.body_Pose_cam_, y.body_Pose_cam_, tol)
  /\ FrameRateClose(x.frame_rate_, y.frame_rate_, tol)
  /\ x.image_size_.width = y.image_size_.width
  /\ x.image_size_.height = y.image_size_.height
  /\ CalEquals(x.calibration_, y.calibration_, tol)
  /\ CvMatCmp(x.camera_matrix_, y.camera_matrix_)
  /\ CvMatCmp(x.distortion_coeff_, y.distortion_coeff_)
  /\ CvMatCmp(x.undistRect_map_x_, y.undistRect_map_x_)
  /\ CvMatCmp(x.undistRect_map_y_, y.undistRect_map_y_)
  /\ CvMatCmp(x.R_rectify_, y.R_rectify_)
  /\ CvMatCmp(x.P_, y.P_)

\* o.equals(p, tol) on two parsed objects; the result is kept in eqres.
Equals(o, p, tol) ==
  /\ pc = "idle"
  /\ ret[o] = "ok"
  /\ ret[p] = "ok"
  /\ LET past == Len(m[p].intrinsics_) < Len(m[o].intrinsics_)
     IN \/ /\ past
           /\ Abort(o)
           /\ UNCHANGED <<m, last, frame>>
        \/ /\ \E g \in GarbageIf(past) :
                eqres' = [kind |-> "equals", this |-> o, camPar |-> p,
                          tol |-> tol,
                          result |-> EqualsResult(m[o], m[p], tol, g)]
           /\ UNCHANGED <<m, ret, last, pc, frame, calls>>

\* ---------------------------------------------------------- specifications
\* One object, parsed again and again and compared with itself.
DoParseYAML == \E f \in YamlFiles : ParseYAML("a", f, MaxCalls)
DoKittiBegin ==
  \E opens \in BOOLEAN, pose \in CallerPoses, cam_id \in CamIds :
    KittiBegin("a", opens, pose, cam_id, MaxCalls)
DoKittiLine == \E line \in KittiLines : KittiLine(line, FALSE)
DoEquals == \E tol \in Tols : Equals("a", "a", tol)

Next == DoParseYAML \/ DoKittiBegin \/ DoKittiLine \/ KittiEnd \/ DoEquals

Spec == Init /\ [][Next]_vars

\* Two objects parsed side by side, the lines each call reads recorded.
PairParseYAML ==
  \E o \in Objs, f \in PairYamlFiles : ParseYAML(o, f, PairMaxCalls)
PairKittiBegin ==
  \E o \in Objs, pose \in PairPoses, cam_id \in CamIds :
    KittiBegin(o, TRUE, pose, cam_id, PairMaxCalls)
PairKittiLine == \E line \in PairLines : KittiLine(line, TRUE)

PairNext == PairParseYAML \/ PairKittiBegin \/ PairKittiLine \/ KittiEnd

PairSpec == Init /\ [][PairNext]_vars

\* ------------------------------------------------------------------ claims
Parsed(o) == pc = "idle" /\ ret[o] = "ok"

\* C1: for a successfully parsed model, equals(model, model, 0) is true.
EqualsReflexiveAtZero ==
  (eqres.kind = "equals" /\ eqres.this = eqres.camPar /\ eqres.tol = 0)
    => eqres.result

\* C2: parseYAML never returns success on a file whose rate_hz is 0.
ZeroRateRejected ==
  \A o \in Objs :
    (Parsed(o) /\ last[o].kind = "yaml") => last[o].file.rate_hz # 0

\* The legacy call read a K record of at least 6 fields and a D record of 5:
\* none of its reads was out of bounds.
ReadInBounds(call) ==
  call.kind = "kitti" =>
    /\ \E i \in 1..Len(call.lines) :
         call.lines[i].label = "K_0:" /\ Len(call.lines[i].vals) >= 6
    /\ \A i \in 1..Len(call.lines) :
         call.lines[i].label = "K_0:" => Len(call.lines[i].vals) >= 6
    /\ \E i \in 1..Len(call.lines) : call.lines[i].label = "D_0:"
    /\ \A i \in 1..Len(call.lines) :
         call.lines[i].label = "D_0:" =>
           \E j \in 1..i : call.lines[j].label = "D_0:"
                            /\ Len(call.lines[j].vals) >= 5

\* C3: two objects whose last successful parse call had the same inputs
\* (the same structured file, or the same legacy lines, camera id, rotation
\* and translation) hold identical fields, whatever they held before. It is
\* stated for the calls that read nothing out of bounds, whose result is
\* the code's alone.
ParseIsPure ==
  (/\ Parsed("a")
   /\ Parsed("b")
   /\ last["a"] = last["b"]
   /\ ReadInBounds(last["a"]))
    => m["a"] = m["b"]

\* C4: after any sequence of successful parse calls camera_matrix_ is the
\* 3x3 identity with intrinsics_[0], [1] on the diagonal and intrinsics_[2],
\* [3] in the last column.
CameraMatrixFollowsIntrinsics ==
  \A o \in Objs :
    Parsed(o) =>
      /\ Len(m[o].intrinsics_) >= 4
      /\ m[o].camera_matrix_ =
           <<<<m[o].intrinsics_[1], 0, m[o].intrinsics_[3]>>,
             <<0, m[o].intrinsics_[2], m[o].intrinsics_[4]>>,
             <<0, 0, 1>>>>

\* A line that is blank or whose label is none of S_<id>:, K_<id>:, D_<id>:,
\* R_<id>:, T_<id>:.
Ignorable(line, cam_id) ==
  \/ line.empty
  \/ line.label \notin
       {"S_" \o cam_id \o ":", "K_" \o cam_id \o ":", "D_" \o cam_id \o ":",
        "R_" \o cam_id \o ":", "T_" \o cam_id \o ":"}

\* C5: reading a blank line or a line with an unrecognized label leaves every
\* field of every object and the accumulated cvR, cvT and distortion values
\* unchanged, and the scan goes on.
IgnoredLinesChangeNothing ==
  [][(/\ pc = "scan"
      /\ frame'.nread = frame.nread + 1
      /\ Ignorable(frame'.line, last[frame.cur].cam_id))
       => /\ m' = m
          /\ frame'.cvR = frame.cvR
          /\ frame'.cvT = frame.cvT
          /\ frame'.distortion_coeff5_ = frame.distortion_coeff5_
          /\ pc' = "scan"
          /\ ret' = ret]_vars

\* The scan has applied the S record of camera 0 and then read and passed
\* over the record of another camera.
IgnoredLineSeen ==
  /\ pc = "scan"
  /\ frame.nread >= 2
  /\ frame.line.label = "S_1:"
  /\ m[frame.cur].image_size_ = [width |-> 1242, height |-> 375]

\* C6: a 9-field R line sets the parsed rotation and a 3-field T line the
\* parsed translation, no other line touches them, and on return the pose is
\* (caller's rotation) x (parsed rotation) and (caller's translation) +
\* (parsed translation): the parsed values themselves when the caller passes
\* the identity and zero.
PoseIsCallerTimesParsed ==
  [][LET o == frame.cur
         call == last[o]
         line == frame'.line
         isR == ~line.empty /\ line.label = "R_" \o call.cam_id \o ":"
         isT == ~line.empty /\ line.label = "T_" \o call.cam_id \o ":"
     IN /\ (pc = "scan" /\ pc' = "scan" /\ frame'.nread = frame.nread + 1) =>
             /\ (isR /\ Len(line.vals) = 9) =>
                  frame'.cvR = <<SubSeq(line.vals, 1, 3), SubSeq(line.vals, 4, 6),
                                 SubSeq(line.vals, 7, 9)>>
             /\ ~isR => frame'.cvR = frame.cvR
             /\ (isT /\ Len(line.vals) = 3) => frame'.cvT = line.vals
             /\ ~isT => frame'.cvT = frame.cvT
        /\ (pc = "scan" /\ pc' = "idle") =>
             /\ m'[o].body_Pose_cam_.R = MatMul(call.R, frame.cvR)
             /\ m'[o].body_Pose_cam_.T = VecAdd(call.T, frame.cvT)
             /\ (call.R = Eye3 /\ call.T = ZeroT) =>
                  m'[o].body_Pose_cam_ = [R |-> frame.cvR, T |-> frame.cvT]]_vars

\* A legacy parse under a caller rotation about x and a nonzero caller
\* translation has returned, having read the R and the T line.
ComposedPoseReturned ==
  /\ Parsed("a")
  /\ last["a"].kind = "kitti"
  /\ last["a"].R = RotX
  /\ m["a"].body_Pose_cam_ =
       [R |-> MatMul(RotX, RotZ), T |-> <<1 + 5, 0 + 6, 2 + 7>>]

\* C7: after a successful parseYAML of a file with 4 distortion coefficients,
\* distortion_coeff_ is those four followed by exactly 0, whatever it held
\* before.
YamlDistortionPadded ==
  \A o \in Objs :
    (/\ Parsed(o)
     /\ last[o].kind = "yaml"
     /\ Len(last[o].file.distortion_coefficients) = 4)
      => m[o].distortion_coeff_ = last[o].file.distortion_coefficients \o <<0>>

\* parseYAML has returned on an object that an earlier parse had populated.
YamlAfterEarlierParse ==
  /\ Parsed("a")
  /\ calls = 2
  /\ last["a"].kind = "yaml"
  /\ m["a"].distortion_coeff_ = <<1, 2, 3, 4, 0>>

\* C8: after any successful parse, image_size_ is strictly positive in both
\* dimensions.
ImageSizePositive ==
  \A o \in Objs :
    Parsed(o) => m[o].image_size_.width > 0 /\ m[o].image_size_.height > 0

\* C9: after any successful parse, intrinsics_ holds exactly 4 entries.
IntrinsicsAreFour ==
  \A o \in Objs : Parsed(o) => Len(m[o].intrinsics_) = 4

\* C10: after the scan has processed a D line with 5 numeric fields,
\* distortion_coeff_ is exactly that line's 5 fields (the last occurrence of
\* a label determines the field).
LastDistortionLineWins ==
  (/\ pc = "scan"
   /\ frame.nread > 0
   /\ ~frame.line.empty
   /\ frame.line.label = "D_" \o last[frame.cur].cam_id \o ":"
   /\ Len(frame.line.vals) = 5)
    => m[frame.cur].distortion_coeff_ = frame.line.vals

====
